---- MODULE Spec2Model ----
(***************************************************************************)
(* block_weave: BlockType / Block / Agent.                                 *)
(*                                                                         *)
(* Text is modelled as a sequence of one-character strings, so that        *)
(* rendering (str.format), the delimiter check (substring test) and the    *)
(* extraction pattern (re.search / re.finditer with re.DOTALL) are         *)
(* computed character by character, as the code computes them.             *)
(***************************************************************************)
EXTENDS Integers, Sequences, FiniteSets, TLC

VARIABLES names, types, block, agent, res

vars == <<names, types, block, agent, res>>

-----------------------------------------------------------------------------
(* Bounds of the model *)

MaxTypes == 2
MaxContentPieces == 2

-----------------------------------------------------------------------------
(* Text helpers *)

SetMax(S) == CHOOSE x \in S : \A y \in S : y <= x
SetMin(S) == CHOOSE x \in S : \A y \in S : x <= y

\* `lit` occurs in `s` at position i (1-based)
HasAt(s, i, lit) ==
    /\ i >= 1
    /\ i + Len(lit) - 1 <= Len(s)
    /\ \A k \in 1..Len(lit) : s[i + k - 1] = lit[k]

\* Python: lit in s
Contains(s, lit) == \E i \in 1..(Len(s) - Len(lit) + 1) : HasAt(s, i, lit)

\* number of positions of `s` at which `lit` occurs
Occurrences(s, lit) == Cardinality({i \in 1..Len(s) : HasAt(s, i, lit)})

\* the least position >= from at which `lit` occurs in `s`, 0 if there is none
FirstAt(s, from, lit) ==
    LET P == {i \in from..Len(s) : HasAt(s, i, lit)}
    IN IF P = {} THEN 0 ELSE SetMin(P)

\* characters matched by \s
Whitespace == {" ", "\n", "\t"}

\* length of the run of whitespace that starts at position p of s
WsRun(s, p) ==
    SetMax({k \in 0..(Len(s) - p + 1) : \A m \in 0..(k - 1) : s[p + m] \in Whitespace})

\* length of the run of whitespace that ends right before position t of s,
\* not reaching below position q
WsBefore(s, q, t) ==
    SetMax({k \in 0..(t - q) : \A m \in 1..k : s[t - m] \in Whitespace})

RECURSIVE Join(_, _)
Join(texts, sep) ==
    IF Len(texts) = 0 THEN <<>>
    ELSE IF Len(texts) = 1 THEN texts[1]
    ELSE texts[1] \o sep \o Join(Tail(texts), sep)

NL == <<"\n">>

-----------------------------------------------------------------------------
(* str.format with keyword arguments only.  `args` is a function from      *)
(* field names to texts.  "{{" and "}}" are escapes, "{name}" is replaced  *)
(* by args[name] (inserted literally, never re-scanned), and anything else *)
(* with a brace raises.                                                    *)

\* the index of the "}" that closes the "{" at position i, 0 if there is none
RECURSIVE FieldEnd(_, _, _)
FieldEnd(t, k, depth) ==
    IF k > Len(t) THEN 0
    ELSE IF t[k] = "{" THEN FieldEnd(t, k + 1, depth + 1)
    ELSE IF t[k] = "}" THEN (IF depth = 1 THEN k ELSE FieldEnd(t, k + 1, depth - 1))
    ELSE FieldEnd(t, k + 1, depth)

NextBrace(t, i) ==
    LET P == {k \in i..Len(t) : t[k] \in {"{", "}"}}
    IN IF P = {} THEN 0 ELSE SetMin(P)

RECURSIVE FormatFrom(_, _, _, _)
FormatFrom(t, i, args, acc) ==
    LET b == NextBrace(t, i) IN
    IF b = 0 THEN [status |-> "ok", text |-> acc \o SubSeq(t, i, Len(t))]
    ELSE LET lit == acc \o SubSeq(t, i, b - 1) IN
      IF b < Len(t) /\ t[b + 1] = t[b]
      THEN FormatFrom(t, b + 2, args, Append(lit, t[b]))
      ELSE IF t[b] = "}" THEN [status |-> "ValueError", text |-> <<>>]
      ELSE LET close == FieldEnd(t, b + 1, 1) IN
        IF close = 0 THEN [status |-> "ValueError", text |-> <<>>]
        ELSE LET field == SubSeq(t, b + 1, close - 1) IN
          IF field \in DOMAIN args
          THEN FormatFrom(t, close + 1, args, lit \o args[field])
          ELSE IF Contains(field, <<"{">>) THEN [status |-> "ValueError", text |-> <<>>]
          ELSE IF field = <<>> THEN [status |-> "IndexError", text |-> <<>>]
          ELSE [status |-> "KeyError", text |-> <<>>]

Format(t, args) == FormatFrom(t, 1, args, <<>>)

-----------------------------------------------------------------------------
(* BlockType *)

block_start == <<"#", "#", " ", "@", "B", "l", "o", "c", "k">>

DefaultDelimiter == << <<"|", "-", "-", "-">>, <<"-", "-", "-", "|">> >>

F_block_name == <<"b", "l", "o", "c", "k", "_", "n", "a", "m", "e">>
F_content == <<"c", "o", "n", "t", "e", "n", "t">>

\* a name passed as None
None == <<"<None>">>

\* Block._placeholder_name
placeholder_name == <<"{">> \o F_block_name \o <<"}">>

\* the registry test of BlockType.__init__
NameTakenNever(name, registry) == FALSE
NameTaken(name, registry) == name \in registry

\* BlockType._get: the empty block
EmptyBlock(bt) ==
    block_start \o <<" ">> \o bt.name \o <<" ", "{">> \o F_block_name \o <<"}", "\n">>
      \o bt.delimiter[1] \o <<"\n", "{">> \o F_content \o <<"}", "\n">> \o bt.delimiter[2]

\* BlockType._contains_delimiter
ContainsStartDelimiterOnly(bt, content) == Contains(content, bt.delimiter[1])
ContainsDelimiter(bt, content) ==
    Contains(content, bt.delimiter[1]) \/ Contains(content, bt.delimiter[2])

\* BlockType.fill
Fill(bt, block_name, content) ==
    IF ContainsDelimiter(bt, content)
    THEN [status |-> "AssertionError", text |-> <<>>]
    ELSE Format(EmptyBlock(bt),
                (F_block_name :> block_name) @@ (F_content :> content))

\* Block._get / Block.__call__
BlockGet(b, name) ==
    Fill(b.type, IF name = None THEN placeholder_name ELSE name, b.content)

-----------------------------------------------------------------------------
(* The extraction pattern of BlockType.get_regex_pattern, compiled with    *)
(* re.DOTALL:                                                              *)
(*    block_start \s* (name) (.*?) \s* start (.*?) end                     *)
(* Backtracking priorities: the first \s* is greedy, group 2 is lazy, the  *)
(* second \s* is greedy, group 3 is lazy.                                  *)

NoMatch == [found |-> FALSE]

\* positions t >= q where the start delimiter occurs with an end delimiter
\* somewhere after it
StartSites(bt, s, q) ==
    {t \in q..Len(s) :
        /\ HasAt(s, t, bt.delimiter[1])
        /\ FirstAt(s, t + Len(bt.delimiter[1]), bt.delimiter[2]) # 0}

\* the match of the pattern's tail "(.*?)\s*start(.*?)end" from position q
\* on: group 2 as short as possible, then the whitespace run as long as
\* possible, then group 3 as short as possible
TailMatch(bt, s, q) ==
    LET g2(t) == t - q - WsBefore(s, q, t)
        Groups(j, c, e) == [name    |-> SubSeq(s, q, q + j - 1),
                            content |-> SubSeq(s, c, e - 1),
                            stop    |-> e + Len(bt.delimiter[2])]
        FromContent(j, c) == Groups(j, c, FirstAt(s, c, bt.delimiter[2]))
        FromName(T, j) ==
            FromContent(j, SetMax({u \in T : g2(u) = j}) + Len(bt.delimiter[1]))
        Over(T) == FromName(T, SetMin({g2(t) : t \in T}))
    IN Over(StartSites(bt, s, q))

\* the match that starts exactly at position i, or NoMatch
MatchAt(bt, s, i) ==
    LET Groups(m) == [found   |-> TRUE,
                      start   |-> i,
                      stop    |-> m.stop,
                      full    |-> SubSeq(s, i, m.stop - 1),
                      type    |-> bt.name,
                      name    |-> m.name,
                      content |-> m.content]
        Names(p) == {k \in 0..WsRun(s, p) :
                       /\ HasAt(s, p + k, bt.name)
                       /\ StartSites(bt, s, p + k + Len(bt.name)) # {}}
        From(p, K) ==
            IF K = {} THEN NoMatch
            ELSE Groups(TailMatch(bt, s, p + SetMax(K) + Len(bt.name)))
        After(p) == From(p, Names(p))
    IN IF ~HasAt(s, i, block_start) THEN NoMatch
       ELSE After(i + Len(block_start))

\* re.search(pattern, s[from:]) : the leftmost match
Search(bt, s, from) ==
    LET Leftmost(ms, P) == IF P = {} THEN NoMatch ELSE ms[SetMin(P)]
        Among(ms) == Leftmost(ms, {i \in DOMAIN ms : ms[i].found})
    IN Among([i \in from..Len(s) |-> MatchAt(bt, s, i)])

\* re.finditer(pattern, s) : the non-overlapping matches, left to right
RECURSIVE FindIterFrom(_, _, _)
FindIterFrom(bt, s, from) ==
    LET Rest(m) == IF m.found THEN <<m>> \o FindIterFrom(bt, s, m.stop) ELSE <<>>
    IN Rest(Search(bt, s, from))

FindIter(bt, s) == FindIterFrom(bt, s, 1)

\* an extraction that yields an empty content when nothing matches
GetBlockContentOrEmpty(bt, string_block) ==
    LET Group3(m) == [status |-> "ok", content |-> IF m.found THEN m.content ELSE <<>>]
    IN Group3(Search(bt, string_block, 1))

\* BlockType.get_block_info_from_string(string_block, "content"):
\* match.group(3), and an AttributeError when match is None
GetBlockContentFromString(bt, string_block) ==
    LET Group3(m) == IF m.found THEN [status |-> "ok", content |-> m.content]
                     ELSE [status |-> "AttributeError", content |-> <<>>]
    IN Group3(Search(bt, string_block, 1))

-----------------------------------------------------------------------------
(* Inputs of the block-level operations *)

FenceDelimiter == << <<"-", "-", "-">>, <<"-", "-", "-">> >>
BraceDelimiter == << <<"{">>, <<"}">> >>

TypeNames == {<<"T">>, <<"U">>}
Delimiters == {DefaultDelimiter, FenceDelimiter, BraceDelimiter}
BlockNames == {None, <<"n">>, DefaultDelimiter[1]}

ContentPieces == {<<"a">>, <<"\n">>, <<"|">>, <<"-", "-", "-">>, <<"{">>}

SeqsUpTo(S, n) == UNION {[1..k -> S] : k \in 0..n}
SeqsFromTo(S, m, n) == UNION {[1..k -> S] : k \in m..n}

Contents == {Join(ps, <<>>) : ps \in SeqsUpTo(ContentPieces, MaxContentPieces)}

NoBlock == [type |-> "none"]
NoAgent == [kind |-> "none"]
NoRender == [name |-> "none"]

Range(f) == {f[i] : i \in DOMAIN f}

-----------------------------------------------------------------------------
(* Block-level operations *)

Init ==
    /\ names = {}
    /\ types = <<>>
    /\ block = NoBlock
    /\ agent = NoAgent
    /\ res = [op |-> "start", status |-> "ok"]

\* a construction that makes the registry hold the new name only
NewBlockTypeReplacesRegistry(name, delimiter) ==
    /\ Len(types) < MaxTypes \/ NameTaken(name, names)
    /\ IF NameTaken(name, names)
       THEN /\ res' = [op |-> "BlockType", name |-> name, status |-> "AssertionError"]
            /\ UNCHANGED <<names, types>>
       ELSE /\ names' = {name}
            /\ types' = Append(types, [name |-> name, delimiter |-> delimiter])
            /\ res' = [op |-> "BlockType", name |-> name, status |-> "ok"]
    /\ UNCHANGED <<block, agent>>

\* BlockType(name, delimiter)
NewBlockType(name, delimiter) ==
    /\ Len(types) < MaxTypes \/ NameTaken(name, names)
    /\ IF NameTaken(name, names)
       THEN /\ res' = [op |-> "BlockType", name |-> name, status |-> "AssertionError"]
            /\ UNCHANGED <<names, types>>
       ELSE /\ names' = names \cup {name}
            /\ types' = Append(types, [name |-> name, delimiter |-> delimiter])
            /\ res' = [op |-> "BlockType", name |-> name, status |-> "ok"]
    /\ UNCHANGED <<block, agent>>

\* Block(block_type, content)
NewBlock(bt, content) ==
    /\ block' = [type |-> bt, content |-> content]
    /\ res' = [op |-> "Block", status |-> "ok"]
    /\ UNCHANGED <<names, types, agent>>

\* block(name) / str(block)
Render(name) ==
    /\ block # NoBlock
    /\ LET r == BlockGet(block, name)
       IN res' = [op |-> "render", block |-> block, name |-> name,
                  status |-> r.status, text |-> r.text]
    /\ UNCHANGED <<names, types, block, agent>>

\* Block.from_string(block_type, string_block), applied to the text rendered
\* last, or to a text without any block when nothing was rendered
FromString(bt) ==
    /\ LET rendered == res.op = "render" /\ res.status = "ok"
           text == IF rendered THEN res.text ELSE <<"a">>
           r == GetBlockContentFromString(bt, text)
       IN res' = [op |-> "from_string", type |-> bt, text |-> text,
                  rendered |-> IF rendered
                               THEN [name |-> res.name, block |-> res.block]
                               ELSE NoRender,
                  status |-> r.status, content |-> r.content]
    /\ UNCHANGED <<names, types, block, agent>>

Next ==
    \/ \E name \in TypeNames, delimiter \in Delimiters : NewBlockType(name, delimiter)
    \/ \E bt \in Range(types), content \in Contents : NewBlock(bt, content)
    \/ \E name \in BlockNames : Render(name)
    \/ \E bt \in Range(types) : FromString(bt)

Spec == Init /\ [][Next]_vars

-----------------------------------------------------------------------------
(* Agent *)

MaxInputs == 2
MaxOutputs == 2

F_role == <<"r", "o", "l", "e">>
F_task == <<"t", "a", "s", "k">>
F_input_example == <<"i", "n", "p", "u", "t", "_", "e", "x", "a", "m", "p", "l", "e">>
F_output_example == <<"o", "u", "t", "p", "u", "t", "_", "e", "x", "a", "m", "p", "l", "e">>
F_algorithm == <<"a", "l", "g", "o", "r", "i", "t", "h", "m">>
F_input_blocks == <<"i", "n", "p", "u", "t", "_", "b", "l", "o", "c", "k", "s">>
F_output_blocks == <<"o", "u", "t", "p", "u", "t", "_", "b", "l", "o", "c", "k", "s">>

Slot(field) == <<"{">> \o field \o <<"}">>

\* prompt_templates/basic1.md: named insertion points for the role, the
\* summary, the examples, the algorithm, the input blocks and the output
\* scaffold, one per line
PromptTemplate ==
    Join(<<Slot(F_role), Slot(F_task), Slot(F_input_example), Slot(F_output_example),
           Slot(F_algorithm), Slot(F_input_blocks), Slot(F_output_blocks)>>, NL)

ANSWER_HERE == <<"A", "N", "S", "W", "E", "R", " ", "H", "E", "R", "E">>
MOCK_RESPONSE ==
    <<"T", "H", "I", "S", " ", "I", "S", " ", "A", " ", "M", "O", "C", "K", " ", "R", "E", "S", "P", "O", "N", "S", "E">>
      \o <<" ", "F", "O", "R", " ", "T", "E", "S", "T", "I", "N", "G", " ", "P", "U", "R", "P", "O", "S", "E", "S", " ", "O", "N", "L", "Y">>

NoLLM == "None"

\* zip(a, b) stops at the shorter argument
ZipLen(a, b) == IF Len(a) <= Len(b) THEN Len(a) ELSE Len(b)

\* Agent._example_to_block
ExampleToBlock(example, block_types) ==
    [i \in 1..ZipLen(example, block_types) |->
        [type |-> block_types[i], content |-> example[i]]]

\* the renderings put one after the other without a separator
StrJoinBlocksNoSeparator(blocks, block_names) ==
    IF Len(blocks) # Len(block_names)
    THEN [status |-> "AssertionError", text |-> <<>>]
    ELSE LET rs == [i \in 1..Len(blocks) |-> BlockGet(blocks[i], block_names[i])]
         IN IF \E i \in 1..Len(blocks) : rs[i].status # "ok"
            THEN [status |-> "AssertionError", text |-> <<>>]
            ELSE [status |-> "ok",
                  text |-> Join([i \in 1..Len(blocks) |-> rs[i].text], <<>>)]

\* Agent._str_join_blocks with block_names given
StrJoinBlocks(blocks, block_names) ==
    IF Len(blocks) # Len(block_names)
    THEN [status |-> "AssertionError", text |-> <<>>]
    ELSE LET rs == [i \in 1..Len(blocks) |-> BlockGet(blocks[i], block_names[i])]
             bad == {i \in 1..Len(blocks) : rs[i].status # "ok"}
         IN IF bad # {}
            THEN [status |-> rs[SetMin(bad)].status, text |-> <<>>]
            ELSE [status |-> "ok",
                  text |-> Join([i \in 1..Len(blocks) |-> rs[i].text], NL)]

\* Agent._get_function_prompt
GetFunctionPrompt(role, summary, input_example, output_example, algorithm, its, ots, inames, onames) ==
    LET ie == StrJoinBlocks(ExampleToBlock(input_example, its), inames)
        oe == StrJoinBlocks(ExampleToBlock(output_example, ots), onames)
        ob == StrJoinBlocks(ExampleToBlock(<<ANSWER_HERE>>, ots), onames)
    IN IF ie.status # "ok" THEN ie
       ELSE IF oe.status # "ok" THEN oe
       ELSE IF ob.status # "ok" THEN ob
       ELSE Format(PromptTemplate,
                   (F_role :> role) @@ (F_task :> summary)
                   @@ (F_input_example :> ie.text) @@ (F_output_example :> oe.text)
                   @@ (F_algorithm :> Join(algorithm, NL))
                   @@ (F_input_blocks :> Slot(F_input_blocks))
                   @@ (F_output_blocks :> ob.text))

\* Agent._block_to_list: a bare block is wrapped in a list
BlockToList(arg) == IF arg.kind = "list" THEN arg.items ELSE <<arg.block>>

\* Agent.get_full_prompt
GetFullPrompt(a, arg) ==
    LET sb == StrJoinBlocks(BlockToList(arg), a.input_block_names)
    IN IF sb.status # "ok" THEN sb
       ELSE Format(a.function_prompt, F_input_blocks :> sb.text)

\* Block.is_block_type
IsBlockType(b, bt) == b.type.name = bt.name

\* Agent._check_blocks_correct
CheckFirstBlockOnly(blocks, block_types) ==
    /\ Len(blocks) = Len(block_types)
    /\ Len(blocks) > 0 => blocks[1].type.name = block_types[1].name
CheckBlocksCorrect(blocks, block_types) ==
    /\ Len(blocks) = Len(block_types)
    /\ \A i \in 1..Len(blocks) : IsBlockType(blocks[i], block_types[i])

\* the matches left in scan order
Unsorted(ms) == ms

\* sorted(all_matches, key=start): a stable sort
RECURSIVE SortByStart(_)
SortByStart(ms) ==
    IF Len(ms) = 0 THEN <<>>
    ELSE LET first == SetMin({i \in 1..Len(ms) :
                                \A j \in 1..Len(ms) : ms[i].start <= ms[j].start})
             rest == [k \in 1..(Len(ms) - 1) |-> IF k < first THEN ms[k] ELSE ms[k + 1]]
         IN <<ms[first]>> \o SortByStart(rest)

RECURSIVE AllMatches(_, _)
AllMatches(block_types, text) ==
    IF Len(block_types) = 0 THEN <<>>
    ELSE FindIter(block_types[1], text) \o AllMatches(Tail(block_types), text)

\* Agent._get_string_blocks_from_text
GetStringBlocksFromText(block_types, text) ==
    LET sorted == SortByStart(AllMatches(block_types, text))
    IN [i \in 1..Len(sorted) |-> sorted[i].full]

\* Agent._get_blocks_from_text: each fragment is parsed against the declared
\* type at its position (zip)
ParseStringBlocks(block_types, sbs) ==
    LET n == ZipLen(block_types, sbs)
        rs == [i \in 1..n |-> GetBlockContentFromString(block_types[i], sbs[i])]
        bad == {i \in 1..n : rs[i].status # "ok"}
    IN IF bad # {}
       THEN [status |-> rs[SetMin(bad)].status, blocks |-> <<>>]
       ELSE [status |-> "ok",
             blocks |-> [i \in 1..n |-> [type |-> block_types[i], content |-> rs[i].content]]]
GetBlocksFromText(block_types, text) ==
    ParseStringBlocks(block_types, GetStringBlocksFromText(block_types, text))

\* the values an Agent call returns
PyNone == [kind |-> "None"]
ABlock(b) == [kind |-> "Block", block |-> b]
AList(bs) == [kind |-> "list", items |-> bs]

\* Agent._format_output_blocks
FormatOutputBlocksAsList(blocks) == AList(blocks)
FormatOutputBlocks(blocks) ==
    IF Len(blocks) = 1 THEN ABlock(blocks[1]) ELSE PyNone

\* Agent._run_llm: which callable receives the prompt
ResolveDefaultFirst(llm, default_llm) ==
    IF default_llm # NoLLM THEN default_llm ELSE llm
ResolveLLM(llm, default_llm) ==
    IF llm # NoLLM THEN llm ELSE default_llm

\* the arity assertion of Agent._run
ArityAtLeast(blocks, block_types) == Len(blocks) >= Len(block_types)
ArityOK(blocks, block_types) == Len(blocks) = Len(block_types)

\* Agent._run up to the LLM call
BeforeLLM(a, arg, llm) ==
    LET blocks == BlockToList(arg)
    IN IF ~ArityOK(blocks, a.input_block_types)
       THEN [status |-> "AssertionError", stage |-> "arity"]
       ELSE IF ~CheckBlocksCorrect(blocks, a.input_block_types)
       THEN [status |-> "AssertionError", stage |-> "type"]
       ELSE LET fp == GetFullPrompt(a, arg)
            IN IF fp.status # "ok"
               THEN [status |-> fp.status, stage |-> "prompt"]
               ELSE IF ResolveLLM(llm, a.default_llm) = NoLLM
               THEN [status |-> "Exception", stage |-> "llm"]
               ELSE [status |-> "ok", stage |-> "llm", prompt |-> fp.text,
                     callee |-> ResolveLLM(llm, a.default_llm)]

\* Agent._run_llm: the calls made on the resolved callable
RunLLMTwice(callee, prompt) ==
    <<[callee |-> callee, prompt |-> prompt], [callee |-> callee, prompt |-> prompt]>>
RunLLM(callee, prompt) == <<[callee |-> callee, prompt |-> prompt]>>

\* Agent._run from the LLM's response on
AfterLLM(a, output) ==
    LET ob == GetBlocksFromText(a.output_block_types, output)
    IN IF ob.status # "ok"
       THEN [status |-> ob.status, stage |-> "extract", value |-> PyNone,
             blocks |-> <<>>]
       ELSE IF ~CheckBlocksCorrect(ob.blocks, a.output_block_types)
       THEN [status |-> "Exception", stage |-> "output_check", value |-> PyNone,
             blocks |-> ob.blocks]
       ELSE [status |-> "ok", stage |-> "return",
             value |-> FormatOutputBlocks(ob.blocks), blocks |-> ob.blocks]

-----------------------------------------------------------------------------
(* Inputs of the Agent operations *)

\* a plain role and one that holds a brace-delimited word
Roles == {<<"r">>, <<"{", "x", "}">>}
Summary == <<"s">>
Algorithm == << <<"1">>, <<"2">> >>
InputNamePool == << <<"i">>, <<"j">>, <<"k">> >>
OutputNamePool == << <<"o">>, <<"p">>, <<"q">> >>
ExamplePool == << <<"e">>, <<"f">>, <<"g">> >>

LLMs == {NoLLM, "explicit"}
DefaultLLMs == {NoLLM, "default"}

\* one block of every type, and one whose content holds its type's start delimiter
InputBlocks ==
    {[type |-> bt, content |-> <<"x">>] : bt \in Range(types)}
      \cup {[type |-> types[1], content |-> types[1].delimiter[1]]}

\* what a caller passes as `blocks`: a list of blocks or one bare block
Args(a) ==
    IF a = NoAgent THEN {}
    ELSE {[kind |-> "list", items |-> bs] :
            bs \in SeqsUpTo(InputBlocks, Len(a.input_block_types) + 1)}
           \cup {[kind |-> "block", block |-> b] : b \in InputBlocks}

\* what an LLM may answer: rendered blocks and other text, one per line
\* each line is a rendered block of some type or other text; the i-th line
\* carries the i-th content of ResponseContents
ResponseContents == << <<"a">>, <<"b">>, <<"c">>, <<"d">> >>
ResponseKinds == Range(types) \cup {NoBlock}
ResponseLine(kind, i) ==
    IF kind = NoBlock THEN ResponseContents[i]
    ELSE Fill(kind, <<"o">>, ResponseContents[i]).text
Responses(a) ==
    {Join([i \in 1..Len(ks) |-> ResponseLine(ks[i], i)], NL) :
        ks \in SeqsUpTo(ResponseKinds, Len(a.output_block_types) + 1)}

-----------------------------------------------------------------------------
(* Agent operations *)

\* Agent(role, summary, input_block_types, output_block_types, ...)
NewAgent(role, its, ots, inames, onames, input_example, output_example, default_llm) ==
    /\ agent = NoAgent
    /\ LET fp == GetFunctionPrompt(role, Summary, input_example, output_example,
                                   Algorithm, its, ots, inames, onames)
       IN IF fp.status # "ok"
          THEN /\ res' = [op |-> "Agent", status |-> fp.status,
                            output_block_types |-> ots, output_block_names |-> onames]
               /\ UNCHANGED agent
          ELSE /\ agent' = [input_block_types |-> its,
                            output_block_types |-> ots,
                            input_block_names |-> inames,
                            output_block_names |-> onames,
                            function_prompt |-> fp.text,
                            default_llm |-> default_llm]
               /\ res' = [op |-> "Agent", status |-> "ok",
                            output_block_types |-> ots, output_block_names |-> onames]
    /\ UNCHANGED <<names, types, block>>

\* Calls are made on a constructed agent, right after its construction or
\* after a mock call; every agent, argument, llm and answer is explored.  The
\* result of a call records the operation that preceded it (after).
Constructed == agent # NoAgent /\ res.op \in {"Agent", "mock_call"}

\* agent(blocks, llm): Agent.__call__ / Agent._run, the LLM's answer included
Invoke(arg, llm) ==
    /\ Constructed
    /\ LET pre == BeforeLLM(agent, arg, llm)
       IN IF pre.status # "ok"
          THEN res' = [op |-> "invoke", arg |-> arg, llm |-> llm,
                       status |-> pre.status, stage |-> pre.stage,
                       value |-> PyNone, calls |-> <<>>, response |-> <<>>,
                       blocks |-> <<>>, after |-> res.op]
          ELSE \E response \in Responses(agent) :
                 LET post == AfterLLM(agent, response)
                 IN res' = [op |-> "invoke", arg |-> arg, llm |-> llm,
                            status |-> post.status, stage |-> post.stage,
                            value |-> post.value,
                            calls |-> RunLLM(pre.callee, pre.prompt),
                            response |-> response, blocks |-> post.blocks,
                            after |-> res.op]
    /\ UNCHANGED <<names, types, block, agent>>

\* a mock call that also clears the agent's default llm
MockCallClearsDefault(arg, llm) ==
    /\ Constructed
    /\ agent' = [agent EXCEPT !.default_llm = NoLLM]
    /\ res' = [op |-> "mock_call", status |-> "ok", stage |-> "return",
               value |-> PyNone, calls |-> <<>>, response |-> <<>>, after |-> res.op]
    /\ UNCHANGED <<names, types, block>>

\* agent.mock_call(blocks, llm)
MockCall(arg, llm) ==
    /\ Constructed
    /\ LET output_blocks == [i \in 1..Len(agent.output_block_types) |->
                               [type |-> agent.output_block_types[i],
                                content |-> MOCK_RESPONSE]]
       IN res' = [op |-> "mock_call", status |-> "ok",
                  stage |-> "return", value |-> FormatOutputBlocks(output_blocks),
                  calls |-> <<>>, response |-> <<>>, after |-> res.op]
    /\ UNCHANGED <<names, types, block, agent>>

\* agent.get_full_prompt(blocks)
FullPrompt(arg) ==
    /\ Constructed
    /\ LET fp == GetFullPrompt(agent, arg)
       IN res' = [op |-> "get_full_prompt", arg |-> arg,
                  status |-> fp.status, text |-> fp.text, after |-> res.op]
    /\ UNCHANGED <<names, types, block, agent>>

\* the process after BlockType("T") and BlockType("U")
InitAgent ==
    /\ names = TypeNames
    /\ types = << [name |-> <<"T">>, delimiter |-> DefaultDelimiter],
                  [name |-> <<"U">>, delimiter |-> DefaultDelimiter] >>
    /\ block = NoBlock
    /\ agent = NoAgent
    /\ res = [op |-> "start", status |-> "ok"]

NextAgent ==
    \/ \E role \in Roles, default_llm \in DefaultLLMs,
          its \in SeqsFromTo(Range(types), 1, MaxInputs),
          ots \in SeqsFromTo(Range(types), 1, MaxOutputs),
          nout \in 1..MaxOutputs :
            NewAgent(role, its, ots,
                     SubSeq(InputNamePool, 1, Len(its)), SubSeq(OutputNamePool, 1, nout),
                     SubSeq(ExamplePool, 1, Len(its)), SubSeq(ExamplePool, 1, nout),
                     default_llm)
    \/ \E arg \in Args(agent), llm \in LLMs : Invoke(arg, llm)
    \/ \E arg \in Args(agent), llm \in LLMs : MockCall(arg, llm)
    \/ \E arg \in Args(agent) : FullPrompt(arg)

SpecAgent == InitAgent /\ [][NextAgent]_vars

-----------------------------------------------------------------------------
(* Agent._get_string_blocks_from_text as a static method, applied to texts    *)
(* of up to MaxLines lines and to lists of up to MaxCandidates candidates     *)

MaxLines == 3
MaxCandidates == 2

AngleDelimiter == << <<"<">>, <<">">> >>

\* the lines of a text: a rendered block of each type, a "TU" block whose
\* content is the start delimiter of "T", a lone end delimiter of "T", and
\* other text
LocateLines ==
    {Fill(bt, <<"o">>, <<"a">>).text : bt \in Range(types)}
      \cup {Fill(types[3], <<"o">>, DefaultDelimiter[1]).text,
             DefaultDelimiter[2], <<"a">>}

LocateTexts == {Join(ls, NL) : ls \in SeqsUpTo(LocateLines, MaxLines)}

\* Agent._get_string_blocks_from_text(block_types, text): a pure function, so
\* a behaviour applies it once
LocateAll(block_types, text) ==
    /\ res.op = "start"
    /\ res' = [op |-> "locate_all", block_types |-> block_types, text |-> text,
               value |-> GetStringBlocksFromText(block_types, text)]
    /\ UNCHANGED <<names, types, block, agent>>

\* the process after BlockType("T"), BlockType("U") and
\* BlockType("TU", ("<", ">"))
InitLocate ==
    /\ names = {<<"T">>, <<"U">>, <<"T", "U">>}
    /\ types = << [name |-> <<"T">>, delimiter |-> DefaultDelimiter],
                  [name |-> <<"U">>, delimiter |-> DefaultDelimiter],
                  [name |-> <<"T", "U">>, delimiter |-> AngleDelimiter] >>
    /\ block = NoBlock
    /\ agent = NoAgent
    /\ res = [op |-> "start", status |-> "ok"]

NextLocate ==
    \E block_types \in SeqsFromTo(Range(types), 1, MaxCandidates), text \in LocateTexts :
        LocateAll(block_types, text)

SpecLocate == InitLocate /\ [][NextLocate]_vars

-----------------------------------------------------------------------------
(* Agent._get_string_blocks_from_text applied to texts made of rendered     *)
(* blocks of types that share their delimiters, the name of one being a     *)
(* prefix of the name of another                                            *)

\* the rendering of a block of the type: Block(bt, "a")("o")
RenderedOnce(bt) == Fill(bt, <<"o">>, <<"a">>).text

SeparationLines == {RenderedOnce(bt) : bt \in Range(types)} \cup {<<"a">>}

SeparationTexts == {Join(ls, NL) : ls \in SeqsUpTo(SeparationLines, MaxLines)}

\* the process after BlockType("T"), BlockType("U") and BlockType("TU")
InitSeparation ==
    /\ names = {<<"T">>, <<"U">>, <<"T", "U">>}
    /\ types = << [name |-> <<"T">>, delimiter |-> DefaultDelimiter],
                  [name |-> <<"U">>, delimiter |-> DefaultDelimiter],
                  [name |-> <<"T", "U">>, delimiter |-> DefaultDelimiter] >>
    /\ block = NoBlock
    /\ agent = NoAgent
    /\ res = [op |-> "start", status |-> "ok"]

NextSeparation ==
    \E block_types \in SeqsFromTo(Range(types), 1, MaxCandidates), text \in SeparationTexts :
        LocateAll(block_types, text)

SpecSeparation == InitSeparation /\ [][NextSeparation]_vars

-----------------------------------------------------------------------------
(* One process that constructs BlockTypes, Blocks and an Agent and uses     *)
(* them, in any order: every operation next to the registry                 *)

NextRegistry ==
    \/ \E name \in TypeNames : NewBlockType(name, DefaultDelimiter)
    \/ \E bt \in Range(types) : NewBlock(bt, <<"x">>)
    \/ Render(<<"n">>)
    \/ \E bt \in Range(types) : FromString(bt)
    \/ \E bt \in Range(types), bo \in Range(types), default_llm \in DefaultLLMs :
          NewAgent(<<"r">>, <<bt>>, <<bo>>,
                   SubSeq(InputNamePool, 1, 1), SubSeq(OutputNamePool, 1, 1),
                   SubSeq(ExamplePool, 1, 1), SubSeq(ExamplePool, 1, 1), default_llm)
    \/ \E arg \in Args(agent), llm \in LLMs : Invoke(arg, llm)
    \/ \E arg \in Args(agent), llm \in LLMs : MockCall(arg, llm)

SpecRegistry == Init /\ [][NextRegistry]_vars

-----------------------------------------------------------------------------
(* BlockType.__init__ run by several threads.  The assert on the registry   *)
(* and the insertion into it are two statements, so another thread can run   *)
(* between them.  res holds, for each thread, its position in __init__ and   *)
(* the outcome of its construction.                                         *)

MaxThreads == 2

Threads == 1..MaxThreads

\* assert name not in self._names
CheckName(t, name, delimiter) ==
    /\ res[t].pc = "start"
    /\ res' = [res EXCEPT ![t] =
                 IF NameTaken(name, names)
                 THEN [pc |-> "done", name |-> name, delimiter |-> delimiter,
                       status |-> "AssertionError"]
                 ELSE [pc |-> "checked", name |-> name, delimiter |-> delimiter,
                       status |-> "running"]]
    /\ UNCHANGED <<names, types, block, agent>>

\* self._names.add(name) and the assignments that complete the BlockType
AddName(t) ==
    /\ res[t].pc = "checked"
    /\ names' = names \cup {res[t].name}
    /\ types' = Append(types, [name |-> res[t].name, delimiter |-> res[t].delimiter])
    /\ res' = [res EXCEPT ![t] = [@ EXCEPT !.pc = "done", !.status = "ok"]]
    /\ UNCHANGED <<block, agent>>

InitThreads ==
    /\ names = {}
    /\ types = <<>>
    /\ block = NoBlock
    /\ agent = NoAgent
    /\ res = [t \in Threads |-> [pc |-> "start", status |-> "running"]]

NextThreads ==
    \/ \E t \in Threads, name \in TypeNames, delimiter \in Delimiters :
          CheckName(t, name, delimiter)
    \/ \E t \in Threads : AddName(t)

SpecThreads == InitThreads /\ [][NextThreads]_vars

-----------------------------------------------------------------------------
(* Properties of BlockType and Block *)

\* C1 (round trip): parsing the text rendered from Block(T, c) under any name
\* against T succeeds and returns exactly c as the content.
C1_RoundTrip ==
    (res.op = "from_string" /\ res.rendered # NoRender
        /\ res.rendered.block.type = res.type)
    => (res.status = "ok" /\ res.content = res.rendered.block.content)

\* C3 (uniqueness): no two constructed BlockTypes have the same name; a
\* construction fails when its name is already registered, and otherwise
\* succeeds and registers the name.
C3_UniqueNames ==
    /\ [](\A i, j \in 1..Len(types) : types[i].name = types[j].name => i = j)
    /\ [][res'.op = "BlockType" =>
            IF res'.name \in names
            THEN res'.status = "AssertionError"
            ELSE /\ res'.status = "ok"
                 /\ res'.name \in names'
                 /\ Len(types') = Len(types) + 1
                 /\ types'[Len(types')].name = res'.name]_vars

\* a second construction under a registered name was refused while two
\* BlockTypes exist
C3_Witness ==
    /\ res.op = "BlockType"
    /\ res.status = "AssertionError"
    /\ Len(types) = 2

BraceFree(text) == ~Contains(text, <<"{">>) /\ ~Contains(text, <<"}">>)

\* the text in which the type places the content: marker, type name, block
\* name and the two delimiter lines
Scaffold(bt, name) ==
    block_start \o <<" ">> \o bt.name \o <<" ">>
      \o (IF name = None THEN placeholder_name ELSE name)
      \o NL \o bt.delimiter[1] \o NL \o NL \o bt.delimiter[2]

-----------------------------------------------------------------------------
(* Properties of Agent calls *)

Inputs == agent.input_block_types
Outputs == agent.output_block_types
Given == BlockToList(res.arg)

\* the fragments found in a text: where each starts and the type it is of
Found(block_types, text) ==
    {<<m.start, m.type>> :
        m \in UNION {Range(FindIter(bt, text)) : bt \in Range(block_types)}}

\* the fragments found in a text are, in order of appearance, one of each
\* declared type in declared order
MatchesDeclared(block_types, text) ==
    LET F == Found(block_types, text)
        rank(f) == Cardinality({g \in F : g[1] < f[1]}) + 1
    IN /\ Cardinality(F) = Len(block_types)
       /\ \A f \in F : /\ rank(f) <= Len(block_types)
                        /\ block_types[rank(f)].name = f[2]

\* C2 (end to end): one input type, one output type O, one correctly typed
\* block, and an answer that is exactly one rendering of an O block with
\* content c: the call returns a Block of type O with content c.
C2_EndToEnd ==
    (/\ res.op = "invoke"
     /\ Len(Inputs) = 1 /\ Len(Outputs) = 1
     /\ Len(Given) = 1 /\ Given[1].type.name = Inputs[1].name
     /\ res.calls # <<>>
     /\ res.response = ResponseLine(Outputs[1], 1))
    => /\ res.status = "ok"
       /\ res.value.kind = "Block"
       /\ res.value.block.type.name = Outputs[1].name
       /\ res.value.block.content = ResponseContents[1]

\* C5 (arity): a call with a number of blocks other than the number of
\* declared input types fails on the arity assertion and no LLM is called.
C5_ArityEnforcement ==
    (res.op = "invoke" /\ Len(Given) # Len(Inputs))
    => /\ res.status = "AssertionError"
       /\ res.stage = "arity"
       /\ res.calls = <<>>

\* too many blocks were passed together with an llm, to an agent that also has
\* a default llm
C5_Witness ==
    /\ res.op = "invoke"
    /\ Len(Given) > Len(Inputs)
    /\ Len(Inputs) > 0
    /\ res.llm # NoLLM
    /\ agent.default_llm # NoLLM
    /\ res.stage = "arity"

\* C6 (types): a call with the declared number of blocks fails on the type
\* assertion, before any LLM call, when some block's type name differs from
\* the declared one at its position, and passes that assertion when all agree.
C6_TypeEnforcement ==
    (res.op = "invoke" /\ Len(Given) = Len(Inputs))
    => IF \E i \in 1..Len(Given) : Given[i].type.name # Inputs[i].name
       THEN /\ res.status = "AssertionError"
            /\ res.stage = "type"
            /\ res.calls = <<>>
       ELSE res.stage \notin {"arity", "type"}

\* two blocks were passed of which only the second has the wrong type
C6_Witness ==
    /\ res.op = "invoke"
    /\ Len(Given) = 2 /\ Len(Inputs) = 2
    /\ Given[1].type.name = Inputs[1].name
    /\ Given[2].type.name # Inputs[2].name
    /\ res.llm # NoLLM
    /\ res.stage = "type"

\* C7 (several outputs): a successful call or mock call whose list of output
\* blocks has a length other than one returns that list, in order.
C7_MultiOutput ==
    ((res.op = "invoke" \/ res.op = "mock_call") /\ res.status = "ok"
        /\ Len(Outputs) # 1)
    => /\ res.value.kind = "list"
       /\ Len(res.value.items) = Len(Outputs)
       /\ \A i \in 1..Len(Outputs) : res.value.items[i].type = Outputs[i]

\* C8 (one output): a successful call or mock call of an agent with exactly
\* one output type returns a bare Block of that type.
C8_SingleOutput ==
    ((res.op = "invoke" \/ res.op = "mock_call") /\ res.status = "ok"
        /\ Len(Outputs) = 1)
    => /\ res.value.kind = "Block"
       /\ res.value.block.type = Outputs[1]

\* a call with an LLM answer returned for an agent with one output type
C8_Witness ==
    /\ res.op = "invoke"
    /\ res.status = "ok"
    /\ Len(Outputs) = 1
    /\ res.calls # <<>>

\* C9 (output contract): a call fails whenever the fragments found in the
\* answer do not match the declared output types in count and kind.
C9_OutputContract ==
    (/\ res.op = "invoke"
     /\ res.calls # <<>>
     /\ ~MatchesDeclared(Outputs, res.response))
    => res.status # "ok"

PassedValidation == res.op = "invoke" /\ res.stage \notin {"arity", "type"}

LLMResolved ==
    /\ res.llm # NoLLM =>
          /\ Len(res.calls) = 1
          /\ res.calls[1].callee = "explicit"
    /\ (res.llm = NoLLM /\ agent.default_llm # NoLLM) =>
          /\ Len(res.calls) = 1
          /\ res.calls[1].callee = "default"
    /\ (res.llm = NoLLM /\ agent.default_llm = NoLLM) =>
          /\ res.status # "ok"
          /\ res.calls = <<>>

-----------------------------------------------------------------------------
(* Mock calls, extraction order and construction *)

\* one block of each declared output type carrying the mock text, a bare Block
\* when there is exactly one
MockBlocks ==
    [i \in 1..Len(Outputs) |-> [type |-> Outputs[i], content |-> MOCK_RESPONSE]]

\* C11 (mock call): a mock call calls no LLM and returns one Block per declared
\* output type, in declared order, each with the same fixed content (a bare
\* Block when one type is declared, the list otherwise).
C11_MockCall ==
    res.op = "mock_call" =>
      /\ res.status = "ok"
      /\ res.calls = <<>>
      /\ res.value = IF Len(Outputs) = 1 THEN ABlock(MockBlocks[1]) ELSE AList(MockBlocks)

\* the matches of every candidate, as <<candidate index, match index>>
Located(block_types, text) ==
    UNION {{<<k, n>> : n \in 1..Len(FindIter(block_types[k], text))} :
             k \in 1..Len(block_types)}

MatchOf(block_types, text, e) == FindIter(block_types[e[1]], text)[e[2]]

\* e comes before f: it starts earlier, or starts at the same offset and was
\* scanned earlier
ScannedBefore(block_types, text, e, f) ==
    LET Earlier(a, b) == \/ a.start < b.start
                         \/ /\ a.start = b.start
                            /\ \/ e[1] < f[1]
                               \/ e[1] = f[1] /\ e[2] < f[2]
    IN Earlier(MatchOf(block_types, text, e), MatchOf(block_types, text, f))

\* C12 (appearance order): the result holds the full text of every match of
\* every candidate's pattern, by ascending start offset, matches that start at
\* the same offset in scan order (earlier candidate first).
C12_AppearanceOrder ==
    res.op = "locate_all" =>
      LET Ordered(M) ==
            /\ Len(res.value) = Cardinality(M)
            /\ \A e \in M :
                 res.value[1 + Cardinality({f \in M :
                     ScannedBefore(res.block_types, res.text, f, e)})]
                   = MatchOf(res.block_types, res.text, e).full
      IN Ordered(Located(res.block_types, res.text))

\* two candidates matched at the same offset with different texts, and a
\* match of the second candidate starts before a match of the first
C12_Witness ==
    /\ res.op = "locate_all"
    /\ Len(res.block_types) = 2
    /\ \E m \in Range(FindIter(res.block_types[1], res.text)),
          n \in Range(FindIter(res.block_types[2], res.text)) :
            m.start = n.start /\ m.full # n.full
    /\ \E m \in Range(FindIter(res.block_types[1], res.text)),
          n \in Range(FindIter(res.block_types[2], res.text)) :
            n.start < m.start

\* the answer holds a fragment of the second declared output type and then
\* one of the first
SwappedAnswer ==
    /\ res.op = "invoke"
    /\ res.calls # <<>>
    /\ Len(Outputs) = 2
    /\ Outputs[1].name # Outputs[2].name
    /\ res.response = Join(<<ResponseLine(Outputs[2], 1), ResponseLine(Outputs[1], 2)>>, NL)

\* C13 (ordering ambiguity): on such an answer the call either fails on the
\* output contract check or returns blocks of the declared types that carry
\* each other's contents; it fails in no other way.
C13_OrderingAmbiguity ==
    SwappedAnswer =>
      \/ res.status = "Exception" /\ res.stage = "output_check"
      \/ /\ res.status = "ok"
         /\ Len(res.blocks) = 2
         /\ \A i \in 1..2 : res.blocks[i].type = Outputs[i]

\* the fill-in-the-answer block of the i-th declared output type
AnswerBlock(i) ==
    Fill(res.output_block_types[i], res.output_block_names[i], ANSWER_HERE).text

\* C14 (output scaffold): constructing an Agent with as many output names and
\* output examples as output types succeeds, and its prompt ends with the
\* fill-in-the-answer blocks of all declared output types, each under its
\* declared name, in declared order.
C14_OutputScaffold ==
    (res.op = "Agent" /\ Len(res.output_block_names) = Len(res.output_block_types))
    => /\ res.status = "ok"
       /\ LET scaffold == Join([i \in 1..Len(res.output_block_types) |-> AnswerBlock(i)], NL)
          IN SubSeq(agent.function_prompt,
                    Len(agent.function_prompt) - Len(scaffold) + 1,
                    Len(agent.function_prompt)) = scaffold

\* the fragments of the answer in order of appearance, each with the type
\* whose pattern located it
Fragments == SortByStart(AllMatches(Outputs, res.response))

\* C15 (parse against the locating type): extraction parses every located
\* fragment, so it does not fail, and the i-th extracted Block has the type
\* that located the i-th fragment and carries that fragment's content.
C15_ParseAgainstLocator ==
    (res.op = "invoke" /\ res.calls # <<>>)
    => /\ res.stage # "extract"
       /\ \A i \in 1..Len(res.blocks) :
            /\ res.blocks[i].type.name = Fragments[i].type
            /\ res.blocks[i].content = Fragments[i].content

CallOps == {"invoke", "mock_call", "get_full_prompt"}

\* what a call yields given the agent and the call's own inputs only
InvokeOutcome(a, arg, llm, response) ==
    LET Outcome(pre) ==
          IF pre.status # "ok" THEN <<pre.status, pre.stage, PyNone>>
          ELSE LET Of(post) == <<post.status, post.stage, post.value>>
               IN Of(AfterLLM(a, response))
    IN Outcome(BeforeLLM(a, arg, llm))

\* C16 (statelessness): no call, failed or not, changes the Agent's declared
\* types and names, prompt or default LLM, and the result of a call made
\* after other calls is the one its own inputs give on that Agent.
C16_Stateless ==
    /\ [][res'.op \in CallOps => agent' = agent]_vars
    /\ [](res.op = "invoke" =>
            <<res.status, res.stage, res.value>>
               = InvokeOutcome(agent, res.arg, res.llm, res.response))
    /\ [](res.op = "get_full_prompt" =>
            LET Same(fp) == res.status = fp.status /\ res.text = fp.text
            IN Same(GetFullPrompt(agent, res.arg)))
    /\ [](res.op = "mock_call" => res.value = FormatOutputBlocks(MockBlocks))

\* a call that failed on the output check was made after a mock call, on an
\* agent that has a default llm
C16_Witness ==
    /\ res.op = "invoke"
    /\ res.after = "mock_call"
    /\ res.stage = "output_check"
    /\ agent.default_llm # NoLLM

-----------------------------------------------------------------------------
(* The prompt *)

\* the pre-rendered prompt holds the input-blocks slot and no other brace
OneSlot(prompt) ==
    /\ Occurrences(prompt, Slot(F_input_blocks)) = 1
    /\ Occurrences(prompt, <<"{">>) = 1
    /\ Occurrences(prompt, <<"}">>) = 1

\* C17 (single substitution point): the prompt of a constructed Agent has the
\* input-blocks slot as its only substitution point, and get_full_prompt
\* succeeds for every list of as many blocks as declared inputs whose contents
\* hold no delimiter.
C17_SingleSubstitutionPoint ==
    /\ agent # NoAgent => OneSlot(agent.function_prompt)
    /\ (/\ res.op = "get_full_prompt"
        /\ Len(Given) = Len(Inputs)
        /\ \A i \in 1..Len(Given) : ~ContainsDelimiter(Given[i].type, Given[i].content))
       => res.status = "ok"

\* the rendering of the i-th supplied block under the i-th declared input name
RenderedInput(i) == Fill(Given[i].type, agent.input_block_names[i], Given[i].content).text

\* the agent's prompt with the text put in place of the input-blocks slot
SlotFilled(prompt, text) ==
    LET At(p) == SubSeq(prompt, 1, p - 1) \o text
                   \o SubSeq(prompt, p + Len(Slot(F_input_blocks)), Len(prompt))
    IN At(FirstAt(prompt, 1, Slot(F_input_blocks)))

\* C18 (prompt assembly): the LLM is called with the agent's prompt in which
\* the input-blocks slot holds the renderings of the supplied blocks, the i-th
\* under the i-th declared input name, in order, joined by single newlines.
C18_PromptAssembly ==
    (res.op = "invoke" /\ res.calls # <<>>)
    => \A c \in 1..Len(res.calls) :
         res.calls[c].prompt =
            SlotFilled(agent.function_prompt,
                       Join([i \in 1..Len(Given) |-> RenderedInput(i)], NL))

\* an llm was called for two supplied blocks of different types
C18_Witness ==
    /\ res.op = "invoke"
    /\ res.calls # <<>>
    /\ Len(Given) = 2
    /\ Given[1].type # Given[2].type

-----------------------------------------------------------------------------
(* Failures *)

\* C19 (parse failure): parsing a text in which the type's pattern matches
\* nowhere ends in an error and yields no content, hence no Block; the
\* registry and the existing blocks are left as they were.
C19_ParseFailure ==
    /\ [](res.op = "from_string" /\ FindIter(res.type, res.text) = <<>>
            => res.status # "ok" /\ res.content = <<>>)
    /\ [][res'.op = "from_string" => block' = block /\ types' = types]_vars

\* a text rendered from a block of one type was parsed against another type
C19_Witness ==
    /\ res.op = "from_string"
    /\ res.rendered # NoRender
    /\ res.rendered.block.type.name # res.type.name
    /\ res.status = "AttributeError"

\* C20 (no retries): a call calls the LLM at most once; exactly once when the
\* inputs pass validation, the prompt renders and an llm is given or
\* configured; and not again when the answer fails extraction or the output
\* check.
C20_NoRetries ==
    res.op = "invoke" =>
      /\ Len(res.calls) <= 1
      /\ (/\ res.stage \notin {"arity", "type", "prompt"}
          /\ (res.llm # NoLLM \/ agent.default_llm # NoLLM))
         => Len(res.calls) = 1
      /\ (res.status # "ok" /\ res.stage \in {"extract", "output_check"})
         => Len(res.calls) = 1

\* the answer of the one call made failed extraction
C20_Witness ==
    /\ res.op = "invoke"
    /\ res.stage = "extract"
    /\ res.status = "AttributeError"
    /\ Len(res.calls) = 1

-----------------------------------------------------------------------------
(* The registry *)

\* C21 (registry under concurrency): of the constructions that threads run
\* interleaved under one name at most one succeeds, and no two BlockTypes
\* have the same name.
C21_ConcurrentUniqueness ==
    /\ \A t, u \in Threads :
         (/\ t # u
          /\ res[t].status = "ok" /\ res[u].status = "ok"
          /\ res[t].name = res[u].name) => FALSE
    /\ \A i, j \in 1..Len(types) : types[i].name = types[j].name => i = j

\* C22 (registry frame): a construction refused for its name leaves the
\* registry as it was; a successful one adds exactly its name; no other
\* operation changes the registry, so no name is ever removed; and a
\* construction under a registered name is refused.
C22_RegistryFrame ==
    [][/\ names \subseteq names'
       /\ res'.op # "BlockType" => names' = names
       /\ res'.op = "BlockType" =>
            /\ res'.name \in names => res'.status = "AssertionError"
            /\ res'.status = "AssertionError" => names' = names
            /\ res'.status = "ok" =>
                 /\ res'.name \notin names
                 /\ names' = names \cup {res'.name}]_vars

\* a name registered before a block and an agent were made and used was
\* refused afterwards
C22_Witness ==
    /\ res.op = "BlockType"
    /\ res.status = "AssertionError"
    /\ block # NoBlock
    /\ agent # NoAgent
    /\ Len(types) = 2

-----------------------------------------------------------------------------
(* Type separation *)

\* where the text holds a rendered block of a candidate: <<candidate, offset>>
RenderedIn(block_types, text) ==
    {e \in (1..Len(block_types)) \X (1..Len(text)) :
        HasAt(text, e[2], RenderedOnce(block_types[e[1]]))}

\* C23 (type separation): with candidates of different names and the same
\* delimiters, a candidate's pattern matches nowhere in the rendering of a
\* single block of a type with another name, and the scan reports every
\* rendered block of a candidate type exactly once.
C23_TypeSeparation ==
    (/\ res.op = "locate_all"
     /\ \A i, j \in 1..Len(res.block_types) :
          res.block_types[i].name = res.block_types[j].name => i = j)
    => /\ \A bt \in Range(res.block_types), other \in Range(types) :
            (res.text = RenderedOnce(other) /\ other.name # bt.name)
               => FindIter(bt, res.text) = <<>>
       /\ Len(res.value) = Cardinality(RenderedIn(res.block_types, res.text))

=============================================================================
